---- MODULE Spec2Model ----
(***************************************************************************)
(* Model of src/transformers/models/smolvlm/video_processing_smolvlm.py:   *)
(* the frame-index sampler (smolvlm_sample_indices_fn), the resize target  *)
(* size (get_resize_output_image_size), the padder (SmolVLMVideoProcessor  *)
(* .pad), the batch maximum (get_max_height_width) and the batch pipeline  *)
(* (SmolVLMVideoProcessor._preprocess).                                    *)
(*                                                                         *)
(* Every call of the processor is independent (no state survives a call),  *)
(* so the state machine is: idle --call--> done --Return--> idle, and the  *)
(* state records the call, its arguments and everything it computed.       *)
(*                                                                         *)
(* Real-valued arguments (duration, fps, target_fps, skip_secs) are fixed- *)
(* point numbers: the integer x stands for the real x / Den.  Quotients    *)
(* the code computes in double precision are computed exactly here; for   *)
(* the sizes, edges and frame counts within the bounds the two agree.     *)
(***************************************************************************)
EXTENDS Integers, Sequences, FiniteSets, TLC

VARIABLES pc, op, args, ret

vars == <<pc, op, args, ret>>

(* ---------------------------- bounds ----------------------------------- *)
\* Den: the fixed-point scale.  Sampler: frame counts, durations, rates, caps
\* and skips up to the Max... below (each from -1).  Resizer: sides up to
\* MaxSide, longest edges up to MaxEdge and around MAX_IMAGE_SIZE.  Padder:
\* videos up to MaxDim x MaxDim, padded sizes up to MaxPad.  Pipeline: batches
\* of up to MaxBatch videos of up to MaxDim x MaxDim.
Den == 2
MaxTotalFrames == 8
MaxDuration == 10
MaxFps == 4
MaxMaxFrames == 4
MaxTargetFps == 3
MaxSkip == 3
MaxSide == 6
MaxEdge == 7
MaxDim == 2
MaxPad == 3
MaxBatch == 3

(* ---------------------------- exceptions ------------------------------- *)
\* The ValueError of each raise statement, told apart by its message.
InvalidMetadataError == "ValueError: Invalid total_num_frames / duration_seconds in metadata"

InvalidSizeSpec == "ValueError: Size must contain 'height' and 'width' keys, or 'longest_edge' key"

NegativePadding == "ValueError: Padding dimensions are negative"

(* ---------------------------- arithmetic ------------------------------- *)
Max(a, b) == IF a >= b THEN a ELSE b

Min(a, b) == IF a <= b THEN a ELSE b

\* Python int(a / b) for b > 0: truncation toward zero.
int(a, b) == IF a >= 0 THEN a \div b ELSE -((-a) \div b)

\* Python round(a / b) for b > 0: round half to even.
round(a, b) ==
    LET q == a \div b
        r == a - q * b
    IN  IF 2 * r < b THEN q
        ELSE IF 2 * r > b THEN q + 1
        ELSE IF q % 2 = 0 THEN q ELSE q + 1

\* floor(a / b) for b > 0.
floor(a, b) == a \div b

(* ---------------------------- FrameSampler ----------------------------- *)
\* getattr(metadata, name, default): a missing attribute yields the default.
getattr(metadata, name, default) ==
    IF name \in DOMAIN metadata THEN metadata[name] ELSE default

\* The two validations of the metadata; TRUE means ValueError is raised.
InvalidMetadata_lt(total_num_frames, duration_seconds) ==
    total_num_frames < 0 \/ duration_seconds < 0

InvalidMetadata(total_num_frames, duration_seconds) ==
    total_num_frames <= 0 \/ duration_seconds <= 0

\* Step 1: int(round(target_fps * duration_seconds)).
estimated_frames(target_fps, duration_seconds) ==
    round(target_fps * duration_seconds, Den * Den)

\* Step 2, without the lower limit of one frame.
desired_frames_est(estimated, max_frames) == Max(1, estimated)

\* Step 2: min(estimated_frames, max_frames), at least 1.
desired_frames(estimated, max_frames) ==
    LET d == Min(estimated, max_frames)
    IN  IF d < 1 THEN 1 ELSE d

\* Whether the centre-skip branch is taken.
skip_taken(duration_seconds, skip_secs, max_frames, target_fps) ==
    skip_secs > 0 /\ (duration_seconds - 2 * skip_secs) > (max_frames * target_fps)

\* The window before clamping: the full range, or the centre-skip window.
raw_window(total_num_frames, native_fps, duration_seconds, max_frames, target_fps, skip_secs) ==
    IF skip_taken(duration_seconds, skip_secs, max_frames, target_fps)
    THEN [start_idx |-> int(skip_secs * native_fps, Den * Den),
          end_idx   |-> int(total_num_frames * Den * Den - skip_secs * native_fps, Den * Den)]
    ELSE [start_idx |-> 0, end_idx |-> total_num_frames - 1]

\* Lines 120-121: clamp the window to [0, total_num_frames - 1].
clamp(w, total_num_frames) ==
    [start_idx |-> Max(0, w.start_idx),
     end_idx   |-> Min(w.end_idx, total_num_frames - 1)]

\* Clamping without the reset of an empty or inverted window.
clamp_window_noreset(w, total_num_frames) == clamp(w, total_num_frames)

\* Clamp, then reset to the full range if start >= end.
clamp_window(w, total_num_frames) ==
    LET c == clamp(w, total_num_frames)
    IN  IF c.start_idx >= c.end_idx
        THEN [start_idx |-> 0, end_idx |-> total_num_frames - 1]
        ELSE c

\* linspace that leaves out the end point (step = delta / num).
linspace_noend(start, stop, num) ==
    [k \in 1..num |-> floor(start * num + (k - 1) * (stop - start), num)]

\* np.linspace(start, stop, num, dtype=int): num evenly spaced points with
\* both end points, floored to integers (numpy floors before the cast).
linspace(start, stop, num) ==
    IF num = 1 THEN <<start>>
    ELSE [k \in 1..num |->
            IF k = num THEN stop
            ELSE floor(start * (num - 1) + (k - 1) * (stop - start), num - 1)]

\* np.unique on a sequence: the sorted sequence of its distinct elements.
unique(s) ==
    LET vals == {s[i] : i \in DOMAIN s}
        rank(v) == Cardinality({u \in vals : u <= v})
    IN  [k \in 1..Cardinality(vals) |-> CHOOSE v \in vals : rank(v) = k]

smolvlm_sample_indices_fn(metadata, max_frames, target_fps, skip_secs) ==
    LET total_num_frames == getattr(metadata, "total_num_frames", 0)
        native_fps       == getattr(metadata, "fps", 30 * Den)
        duration_seconds == getattr(metadata, "duration", 0)
    IN  IF InvalidMetadata(total_num_frames, duration_seconds)
        THEN [raised |-> InvalidMetadataError]
        ELSE
          LET est == estimated_frames(target_fps, duration_seconds)
              n   == desired_frames(est, max_frames)
              raw == raw_window(total_num_frames, native_fps, duration_seconds,
                                max_frames, target_fps, skip_secs)
              cl  == clamp(raw, total_num_frames)
              win == clamp_window(raw, total_num_frames)
          IN  [raised |-> "none",
               total_num_frames |-> total_num_frames,
               desired_frames |-> n,
               clamped |-> cl,
               start_idx |-> win.start_idx,
               end_idx |-> win.end_idx,
               indices |-> unique(linspace(win.start_idx, win.end_idx, n))]

Fields == {"total_num_frames", "fps", "duration"}

FullMetadata ==
    [total_num_frames : -1..MaxTotalFrames, fps : -1..MaxFps, duration : -1..MaxDuration]

\* Metadata objects, any attribute of which may be missing.
Metadatas ==
    {[f \in S |-> m[f]] : m \in FullMetadata, S \in SUBSET Fields}

Sample ==
    /\ pc = "idle"
    /\ \E metadata \in Metadatas, max_frames \in -1..MaxMaxFrames,
          target_fps \in -1..MaxTargetFps, skip_secs \in -1..MaxSkip :
         /\ op' = "sample_indices"
         /\ args' = [metadata |-> metadata, max_frames |-> max_frames,
                     target_fps |-> target_fps, skip_secs |-> skip_secs]
         /\ ret' = smolvlm_sample_indices_fn(metadata, max_frames, target_fps, skip_secs)
    /\ pc' = "done"

(* ---------------------------- tensors ---------------------------------- *)
\* A video tensor is [h, w, data]: its trailing (height, width) and one
\* spatial plane data[<<i, j>>], i in 1..h, j in 1..w.  The leading
\* (batch/time/channel) dimensions are treated alike by every operation
\* modelled here and are left out.
Plane(h, w) == (1..h) \X (1..w)

Video(h, w, value) == [h |-> h, w |-> w, data |-> [p \in Plane(h, w) |-> value]]

\* video.size()[-2:]
size_of(video) == <<video.h, video.w>>

(* ---------------------------- Resizer ---------------------------------- *)
MAX_IMAGE_SIZE == 4096

\* The parity correction left out.
fix_parity_none(x) == x

\* Lines 169-170 and 174-175: an odd value is incremented.
fix_parity(x) == IF x % 2 /= 0 THEN x + 1 ELSE x

get_resize_output_image_size(video, resolution_max_side) ==
    LET height == video.h
        width  == video.w
        side   == Min(MAX_IMAGE_SIZE, resolution_max_side)
        \* aspect_ratio = width / height; int(width / aspect_ratio) is
        \* int(side * height / width), int(height * aspect_ratio) is
        \* int(side * width / height).
        out    == IF width >= height
                  THEN [height |-> fix_parity(int(side * height, width)), width |-> side]
                  ELSE [height |-> side, width |-> fix_parity(int(side * width, height))]
    IN  <<Max(out.height, 1), Max(out.width, 1)>>

\* F.resize(video, new_size, ...): the interpolation primitive of the tensor
\* backend, abstracted as nearest-neighbour sampling of the plane.
F_resize(video, new_size) ==
    [h |-> new_size[1], w |-> new_size[2],
     data |-> [p \in Plane(new_size[1], new_size[2]) |->
                 video.data[<<((p[1] - 1) * video.h) \div new_size[1] + 1,
                              ((p[2] - 1) * video.w) \div new_size[2] + 1>>]]]

\* A SizeDict attribute: None (modelled as 0, equally falsy) when not set.
size_attr(size, name) == IF name \in DOMAIN size THEN size[name] ELSE 0

\* SmolVLMVideoProcessor.resize
resize(video, size) ==
    IF size_attr(size, "longest_edge") /= 0
    THEN [raised |-> "none",
          video |-> F_resize(video,
                      get_resize_output_image_size(video, size_attr(size, "longest_edge")))]
    ELSE IF size_attr(size, "height") /= 0 /\ size_attr(size, "width") /= 0
    THEN [raised |-> "none",
          video |-> F_resize(video, <<size_attr(size, "height"), size_attr(size, "width")>>)]
    ELSE [raised |-> InvalidSizeSpec]

\* Size dictionaries: longest_edge mode, exact mode, and neither.
SizeDicts(edges, sides) ==
    {[longest_edge |-> e] : e \in edges}
      \cup {[height |-> a, width |-> b] : a \in sides, b \in sides}
      \cup {[height |-> a] : a \in sides}

EdgeValues ==
    (0..MaxEdge) \cup {MAX_IMAGE_SIZE - 1, MAX_IMAGE_SIZE, MAX_IMAGE_SIZE + 1}

Resize ==
    /\ pc = "idle"
    /\ \E h \in 1..MaxSide, w \in 1..MaxSide, size \in SizeDicts(EdgeValues, 0..2) :
         LET r == resize(Video(h, w, 1), size)
         IN  /\ op' = "resize"
             /\ args' = [height |-> h, width |-> w, size |-> size]
             /\ ret' = IF r.raised = "none"
                       THEN [raised |-> "none", height |-> r.video.h, width |-> r.video.w]
                       ELSE r
    /\ pc' = "done"

(* ---------------------------- Padder ----------------------------------- *)
\* The test for negative padding with "and" in place of "or".
negative_padding_and(padding_bottom, padding_right) ==
    padding_bottom < 0 /\ padding_right < 0

\* Line 266.
negative_padding(padding_bottom, padding_right) ==
    padding_bottom < 0 \/ padding_right < 0

\* F.pad(video, [0, 0, padding_right, padding_bottom], fill=fill): constant
\* padding on the right and bottom edges (a negative amount crops).
F_pad(video, padding_right, padding_bottom, fill) ==
    [h |-> video.h + padding_bottom, w |-> video.w + padding_right,
     data |-> [p \in Plane(video.h + padding_bottom, video.w + padding_right) |->
                 IF p[1] <= video.h /\ p[2] <= video.w THEN video.data[p] ELSE fill]]

\* A mask that is 1 over the whole padded plane.
make_pixel_mask_ones(video, original_size) ==
    [h |-> video.h, w |-> video.w, data |-> [p \in Plane(video.h, video.w) |-> 1]]

\* Lines 278-279: zeros of the (padded) video's plane, then ones on
\* [: original_size[0], : original_size[1]].
make_pixel_mask(video, original_size) ==
    [h |-> video.h, w |-> video.w,
     data |-> [p \in Plane(video.h, video.w) |->
                 IF p[1] <= original_size[1] /\ p[2] <= original_size[2] THEN 1 ELSE 0]]

\* SmolVLMVideoProcessor.pad
pad(video, padded_size, fill, return_pixel_mask) ==
    LET original_size  == size_of(video)
        padding_bottom == padded_size[1] - original_size[1]
        padding_right  == padded_size[2] - original_size[2]
    IN  IF negative_padding(padding_bottom, padding_right)
        THEN [raised |-> NegativePadding]
        ELSE
          LET padded == IF original_size /= padded_size
                        THEN F_pad(video, padding_right, padding_bottom, fill)
                        ELSE video
          IN  IF return_pixel_mask
              THEN [raised |-> "none", video |-> padded, has_mask |-> TRUE,
                    pixel_mask |-> make_pixel_mask(padded, original_size)]
              ELSE [raised |-> "none", video |-> padded, has_mask |-> FALSE]

Pixels == 1..2

Fills == {0, 2}

\* Every video of trailing size at most MaxDim x MaxDim over Pixels.
Videos ==
    UNION {{[h |-> h, w |-> w, data |-> d] : d \in [Plane(h, w) -> Pixels]} :
             h \in 1..MaxDim, w \in 1..MaxDim}

Pad ==
    /\ pc = "idle"
    /\ \E video \in Videos, ph \in 0..MaxPad, pw \in 0..MaxPad,
          fill \in Fills, return_pixel_mask \in BOOLEAN :
         /\ op' = "pad"
         /\ args' = [video |-> video, padded_size |-> <<ph, pw>>, fill |-> fill,
                     return_pixel_mask |-> return_pixel_mask]
         /\ ret' = pad(video, <<ph, pw>>, fill, return_pixel_mask)
    /\ pc' = "done"

(* ---------------------------- ShapeGrouper ----------------------------- *)
RECURSIVE group_from(_, _, _)
\* One pass over the batch from position i on: the video joins the stack of
\* its shape, and its position joins that shape's list of positions.
group_from(videos, i, acc) ==
    IF i > Len(videos) THEN acc
    ELSE
      LET k == size_of(videos[i])
      IN  group_from(videos, i + 1,
            IF k \in DOMAIN acc.index
            THEN [groups |-> [acc.groups EXCEPT ![k] = Append(@, videos[i])],
                  index  |-> [acc.index EXCEPT ![k] = Append(@, i)]]
            ELSE [groups |-> acc.groups @@ (k :> <<videos[i]>>),
                  index  |-> acc.index @@ (k :> <<i>>)])

\* group(videos): the groups keyed by shape, each the stack (a sequence) of
\* its videos in their original relative order, and the index map from each
\* shape to the ordered original positions.
group_videos_by_shape(videos) ==
    group_from(videos, 1, [groups |-> <<>>, index |-> <<>>])

\* The number of batch positions an index map covers.
batch_size(index) ==
    Cardinality(UNION {{index[k][j] : j \in DOMAIN index[k]} : k \in DOMAIN index})

\* The member of the groups that came from batch position i.
member(groups, index, i) ==
    LET k == CHOOSE x \in DOMAIN index : \E j \in DOMAIN index[x] : index[x][j] = i
        j == CHOOSE y \in DOMAIN index[k] : index[k][y] = i
    IN  groups[k][j]

RECURSIVE scatter(_, _, _)
\* The first n positions of the reordered batch.
scatter(groups, index, n) ==
    IF n = 0 THEN <<>>
    ELSE Append(scatter(groups, index, n - 1), member(groups, index, n))

\* A reorder that takes the first member of the group for every position.
reorder_videos_first(groups, index) ==
    LET n == Cardinality(UNION {{index[k][j] : j \in DOMAIN index[k]} : k \in DOMAIN index})
    IN  [i \in 1..n |->
           LET k == CHOOSE x \in DOMAIN index : \E j \in DOMAIN index[x] : index[x][j] = i
           IN  groups[k][1]]

\* reorder(groups, index_map): unstacks each group and scatters its members
\* back to their original batch positions.
reorder_videos(groups, index) == scatter(groups, index, batch_size(index))

(* ---------------------------- Normalizer ------------------------------- *)
\* Pixel values of the pipeline are rationals [n, d] (n / d, d > 0).
Rat(v) == [n |-> v, d |-> 1]

\* x * factor
rescale(x, factor) == [n |-> x.n * factor.n, d |-> x.d * factor.d]

\* (x - mean) / std, std > 0
normalize(x, mean, std) ==
    [n |-> (x.n * mean.d - mean.n * x.d) * std.d, d |-> x.d * mean.d * std.n]

\* rescale_and_normalize on one video: rescale, then normalize, each if set.
rescale_and_normalize(video, do_rescale, rescale_factor, do_normalize, image_mean, image_std) ==
    LET r(x) == IF do_rescale THEN rescale(x, rescale_factor) ELSE x
        m(x) == IF do_normalize THEN normalize(r(x), image_mean, image_std) ELSE r(x)
    IN  [video EXCEPT !.data = [p \in DOMAIN video.data |-> m(video.data[p])]]

\* convert_to_rgb: an RGB video is returned as it is.
convert_to_rgb(video) == video

(* ---------------------------- BatchAssembler --------------------------- *)
\* float("-inf"), the start value of the running maxima.
NegInf == -1000000

\* The size of the last video of the batch, not the running maximum.
get_max_height_width_last(videos) ==
    IF videos = <<>> THEN <<NegInf, NegInf>>
    ELSE <<videos[Len(videos)].h, videos[Len(videos)].w>>

RECURSIVE running_max(_, _, _)
\* Lines 136-139: the loop over the videos from position i on.
running_max(videos, i, acc) ==
    IF i > Len(videos) THEN acc
    ELSE running_max(videos, i + 1,
                     <<Max(videos[i].h, acc[1]), Max(videos[i].w, acc[2])>>)

get_max_height_width(videos) == running_max(videos, 1, <<NegInf, NegInf>>)

\* torch.stack(videos, dim=0): needs a non-empty list of equal shapes.
stack(videos) ==
    IF videos = <<>> \/ \E i \in DOMAIN videos : size_of(videos[i]) /= size_of(videos[1])
    THEN [raised |-> "RuntimeError"]
    ELSE [raised |-> "none", videos |-> videos]

\* Some member of some group raised e.
raised_in(grouped, e) ==
    \E k \in DOMAIN grouped : \E j \in DOMAIN grouped[k] : grouped[k][j].raised = e

\* The field f of every member of every group.
field_of(grouped, f) ==
    [k \in DOMAIN grouped |-> [j \in DOMAIN grouped[k] |-> grouped[k][j][f]]]

\* SmolVLMVideoProcessor._preprocess
_preprocess(videos, do_convert_rgb, do_resize, size, do_rescale, rescale_factor, do_normalize, do_pad, image_mean, image_std, return_tensors) ==
    LET g1 == group_videos_by_shape(videos)
        resized_videos_grouped ==
            [k \in DOMAIN g1.groups |-> [j \in DOMAIN g1.groups[k] |->
                LET v == IF do_convert_rgb THEN convert_to_rgb(g1.groups[k][j])
                                           ELSE g1.groups[k][j]
                IN  IF do_resize THEN resize(v, size)
                                 ELSE [raised |-> "none", video |-> v]]]
    IN  IF raised_in(resized_videos_grouped, InvalidSizeSpec)
        THEN [raised |-> InvalidSizeSpec]
        ELSE
          LET resized_videos ==
                  reorder_videos(field_of(resized_videos_grouped, "video"), g1.index)
              g2 == group_videos_by_shape(resized_videos)
              normalized_grouped ==
                  [k \in DOMAIN g2.groups |-> [j \in DOMAIN g2.groups[k] |->
                      rescale_and_normalize(g2.groups[k][j], do_rescale, rescale_factor,
                                            do_normalize, image_mean, image_std)]]
              normalized_videos == reorder_videos(normalized_grouped, g2.index)
              pad_size == get_max_height_width(normalized_videos)
              g3 == group_videos_by_shape(normalized_videos)
              padded_grouped ==
                  [k \in DOMAIN g3.groups |-> [j \in DOMAIN g3.groups[k] |->
                      pad(g3.groups[k][j], pad_size, Rat(0), TRUE)]]
              processed_videos ==
                  IF do_pad THEN reorder_videos(field_of(padded_grouped, "video"), g3.index)
                            ELSE normalized_videos
              pixel_attention_mask ==
                  IF do_pad
                  THEN reorder_videos(field_of(padded_grouped, "pixel_mask"), g3.index)
                  ELSE <<>>
              stacked ==
                  IF return_tensors THEN stack(processed_videos)
                  ELSE [raised |-> "none", videos |-> processed_videos]
              stacked_mask ==
                  IF do_pad /\ return_tensors THEN stack(pixel_attention_mask)
                  ELSE [raised |-> "none", videos |-> pixel_attention_mask]
          IN  IF do_pad /\ raised_in(padded_grouped, NegativePadding)
              THEN [raised |-> NegativePadding]
              ELSE IF stacked.raised /= "none" \/ stacked_mask.raised /= "none"
              THEN [raised |-> "RuntimeError"]
              ELSE [raised |-> "none",
                    resized_videos |-> resized_videos,
                    normalized_videos |-> normalized_videos,
                    pad_size |-> pad_size,
                    pixel_values |-> stacked.videos,
                    has_mask |-> do_pad,
                    pixel_attention_mask |-> stacked_mask.videos]

\* The class defaults: size = {"longest_edge": 4 * 364}, rescale by 1 / 255,
\* image_mean = image_std = 0.5.
DefaultSize == [longest_edge |-> 4 * 364]

PipelineSizes == {[longest_edge |-> 2], [longest_edge |-> 3], [height |-> 2]}

\* do_resize with a size; the size is not read when do_resize is off.
ResizeOptions ==
    {[do_resize |-> FALSE, size |-> DefaultSize]}
      \cup {[do_resize |-> TRUE, size |-> z] : z \in PipelineSizes}

\* The switches that change no shape are all on, as by default, or all off.
ValueOptions ==
    {[do_convert_rgb |-> b, do_rescale |-> b, do_normalize |-> b] : b \in BOOLEAN}

\* Batches of up to MaxBatch videos; the video at position i holds the value
\* i, so that the videos of a batch are told apart.
Batches ==
    UNION {{[i \in 1..n |-> Video(shape[i][1], shape[i][2], Rat(i))] :
              shape \in [1..n -> (1..MaxDim) \X (1..MaxDim)]} : n \in 0..MaxBatch}

Preprocess ==
    /\ pc = "idle"
    /\ \E videos \in Batches, rz \in ResizeOptions, vo \in ValueOptions,
          do_pad \in BOOLEAN, return_tensors \in BOOLEAN :
         /\ op' = "preprocess"
         /\ args' = [videos |-> videos, do_convert_rgb |-> vo.do_convert_rgb,
                     do_resize |-> rz.do_resize, size |-> rz.size,
                     do_rescale |-> vo.do_rescale, do_normalize |-> vo.do_normalize,
                     do_pad |-> do_pad, return_tensors |-> return_tensors]
         /\ ret' = _preprocess(videos, vo.do_convert_rgb, rz.do_resize, rz.size,
                               vo.do_rescale, [n |-> 1, d |-> 255], vo.do_normalize, do_pad,
                               [n |-> 1, d |-> 2], [n |-> 1, d |-> 2], return_tensors)
    /\ pc' = "done"

(* ---------------------------- state machine ---------------------------- *)
NoCall == [raised |-> "none"]

Init ==
    /\ pc = "idle"
    /\ op = "none"
    /\ args = NoCall
    /\ ret = NoCall

\* The call returns (or its exception propagates); nothing is kept.
Return ==
    /\ pc = "done"
    /\ pc' = "idle"
    /\ op' = "none"
    /\ args' = NoCall
    /\ ret' = NoCall

Next == Sample \/ Resize \/ Pad \/ Preprocess \/ Return

Spec == Init /\ [][Next]_vars

\* Each component on its own.
NextSampler == Sample \/ Return

SpecSampler == Init /\ [][NextSampler]_vars

NextResizer == Resize \/ Return

SpecResizer == Init /\ [][NextResizer]_vars

NextPadder == Pad \/ Return

SpecPadder == Init /\ [][NextPadder]_vars

NextPipeline == Preprocess \/ Return

SpecPipeline == Init /\ [][NextPipeline]_vars

(* ======================= properties: FrameSampler ====================== *)
Sampled == pc = "done" /\ op = "sample_indices" /\ ret.raised = "none"

StrictlyAscending(s) == \A i \in 1..(Len(s) - 1) : s[i] < s[i + 1]

InRange(s, lo, hi) == \A i \in DOMAIN s : lo <= s[i] /\ s[i] <= hi

\* C7 as stated: every returned index lies in [0, total_num_frames - 1], the
\* indices are strictly ascending, and there are at most max_frames of them.
C7_Original ==
    Sampled =>
        /\ InRange(ret.indices, 0, ret.total_num_frames - 1)
        /\ StrictlyAscending(ret.indices)
        /\ Len(ret.indices) <= args.max_frames

\* C7 amended: as C7, but the number of indices is at most
\* max(1, max_frames): one index is returned even when max_frames < 1.
C7_SamplerBounds ==
    Sampled =>
        /\ InRange(ret.indices, 0, ret.total_num_frames - 1)
        /\ StrictlyAscending(ret.indices)
        /\ Len(ret.indices) >= 1
        /\ Len(ret.indices) <= Max(1, args.max_frames)

\* A call whose evenly spaced points collide, so that duplicates are dropped.
C7_Witness ==
    /\ Sampled
    /\ Len(ret.indices) >= 2
    /\ Len(ret.indices) < ret.desired_frames
    /\ Len(ret.indices) = ret.total_num_frames

\* The k-th evenly spaced point of the window is Point(k) / (n - 1).
Point(k) == ret.start_idx * (ret.desired_frames - 1) + k * (ret.end_idx - ret.start_idx)

\* idx is Point(k) / (n - 1) rounded to a nearest integer (either one at a tie).
IsNearest(idx, k) ==
    LET d == ret.desired_frames - 1
    IN  2 * d * idx - d <= 2 * Point(k) /\ 2 * Point(k) <= 2 * d * idx + d

\* idx is Point(k) / (n - 1) rounded down.
IsFloor(idx, k) ==
    LET d == ret.desired_frames - 1
    IN  d * idx <= Point(k) /\ Point(k) < d * (idx + 1)

\* The returned indices are the ascending, duplicate-free list of the points
\* k = 0..n-1, rounded to nearest or rounded down; for n >= 2 the first is
\* start and the last is end.
Spacing(nearest) ==
    LET R(idx, k) == IF nearest THEN IsNearest(idx, k) ELSE IsFloor(idx, k)
    IN  Sampled =>
          /\ StrictlyAscending(ret.indices)
          /\ IF ret.desired_frames = 1
             THEN ret.indices = <<ret.start_idx>>
             ELSE /\ \A k \in 0..(ret.desired_frames - 1) :
                        \E i \in DOMAIN ret.indices : R(ret.indices[i], k)
                  /\ \A i \in DOMAIN ret.indices :
                        \E k \in 0..(ret.desired_frames - 1) : R(ret.indices[i], k)
                  /\ ret.indices[1] = ret.start_idx
                  /\ ret.indices[Len(ret.indices)] = ret.end_idx

\* C8 as stated: the returned indices are the ascending deduplication of the
\* n evenly spaced points of [start, end], each rounded to the nearest integer.
C8_Original == Spacing(TRUE)

\* C8 amended: the returned indices are the ascending deduplication of the n
\* evenly spaced points of [start, end], each rounded down (not to nearest);
\* for n >= 2 the first returned index is start and the last is end.
C8_SamplerSpacing == Spacing(FALSE)

\* A call with at least three points one of which has a fractional part of
\* more than one half, so that rounding down and rounding to nearest differ.
C8_Witness ==
    /\ Sampled
    /\ ret.desired_frames >= 3
    /\ Len(ret.indices) = ret.desired_frames
    /\ \E i \in DOMAIN ret.indices : \E k \in 0..(ret.desired_frames - 1) :
          IsFloor(ret.indices[i], k) /\ ~IsNearest(ret.indices[i], k)

\* The attribute is missing from the metadata or is not positive.
NotPositive(f) ==
    f \notin DOMAIN args.metadata \/ args.metadata[f] <= 0

\* C9: the sampler raises the invalid-metadata error, returning no indices,
\* exactly when total_num_frames or duration is missing or <= 0.
C9_InvalidMetadata ==
    (pc = "done" /\ op = "sample_indices") =>
        /\ ret.raised = InvalidMetadataError <=>
              (NotPositive("total_num_frames") \/ NotPositive("duration"))
        /\ ret.raised = InvalidMetadataError => "indices" \notin DOMAIN ret
        /\ ret.raised = "none" => "indices" \in DOMAIN ret

\* The error is raised for a missing duration although the frame count is valid.
C9_Witness ==
    /\ pc = "done" /\ op = "sample_indices"
    /\ ret.raised = InvalidMetadataError
    /\ "duration" \notin DOMAIN args.metadata
    /\ ~NotPositive("total_num_frames")
    /\ args.skip_secs > 0

FullWindow ==
    ret.start_idx = 0 /\ ret.end_idx = ret.total_num_frames - 1

\* C10: the window satisfies 0 <= start <= end <= total_num_frames - 1; it
\* differs from the full range only if skip_secs > 0 and duration - 2*skip_secs
\* > max_frames * target_fps; and if the clamped window has start >= end the
\* window is the full range.
C10_WindowFallback ==
    Sampled =>
        /\ 0 <= ret.start_idx
        /\ ret.start_idx <= ret.end_idx
        /\ ret.end_idx <= ret.total_num_frames - 1
        /\ ~FullWindow =>
              /\ args.skip_secs > 0
              /\ args.metadata.duration - 2 * args.skip_secs
                    > args.max_frames * args.target_fps
        /\ ret.clamped.start_idx >= ret.clamped.end_idx => FullWindow

\* The centre-skip window is inverted after clamping and the full range of a
\* video of several frames is used instead.
C10_Witness ==
    /\ Sampled
    /\ args.skip_secs > 0
    /\ ret.clamped.start_idx > ret.clamped.end_idx
    /\ ret.clamped.start_idx > 0
    /\ FullWindow
    /\ ret.total_num_frames >= 3

(* ========================= properties: Resizer ========================= *)
\* A resize call in longest_edge mode.
LongestEdgeCall ==
    /\ pc = "done" /\ op = "resize"
    /\ "longest_edge" \in DOMAIN args.size
    /\ args.size.longest_edge > 0

Clamped == Min(args.size.longest_edge, MAX_IMAGE_SIZE)

\* C5 as stated: in longest_edge mode both the output height and the output
\* width are even.
C5_Original ==
    LongestEdgeCall => ret.height % 2 = 0 /\ ret.width % 2 = 0

\* C5 amended: in longest_edge mode the dominant output dimension (width if
\* width >= height, else height) equals min(longest_edge, 4096), whatever its
\* parity, and the other one is even, or is 1 when its round-down is 0; so
\* both are even whenever min(longest_edge, 4096) is even and the other
\* dimension is not 1.
C5_ResizeParity ==
    LongestEdgeCall =>
        LET wide  == args.width >= args.height
            dom   == IF wide THEN ret.width ELSE ret.height
            other == IF wide THEN ret.height ELSE ret.width
            major == Max(args.height, args.width)
            minor == Min(args.height, args.width)
        IN  /\ dom = Clamped
            /\ \/ other % 2 = 0 /\ other >= 2
               \/ other = 1 /\ Clamped * minor < major
            /\ (Clamped % 2 = 0 /\ other /= 1) =>
                  (ret.height % 2 = 0 /\ ret.width % 2 = 0)

\* The round-down of the non-dominant dimension is odd and is incremented.
C5_Witness ==
    /\ LongestEdgeCall
    /\ args.width > args.height
    /\ ((Clamped * args.height) \div args.width) % 2 = 1
    /\ ret.height = (Clamped * args.height) \div args.width + 1
    /\ ret.width = MAX_IMAGE_SIZE

\* C6: in longest_edge mode the larger of the output height and width equals
\* longest_edge clamped to [1, 4096].
C6_LongestEdge ==
    LongestEdgeCall =>
        Max(ret.height, ret.width) = Min(Max(args.size.longest_edge, 1), MAX_IMAGE_SIZE)

(* ========================= properties: Padder ========================== *)
PadCall == pc = "done" /\ op = "pad"

Dominates ==
    /\ args.padded_size[1] >= args.video.h
    /\ args.padded_size[2] >= args.video.w

Inside(p) == p[1] <= args.video.h /\ p[2] <= args.video.w

\* C3: for padded_size >= the video's size componentwise, pad returns a
\* video of size padded_size that is unchanged on the original region and
\* equals fill outside it, and (when requested) a mask of the same size that
\* is 1 exactly on the original region.
C3_PaddingCorrectness ==
    (PadCall /\ Dominates) =>
        /\ ret.raised = "none"
        /\ size_of(ret.video) = args.padded_size
        /\ DOMAIN ret.video.data = Plane(args.padded_size[1], args.padded_size[2])
        /\ \A p \in DOMAIN ret.video.data :
              ret.video.data[p] = IF Inside(p) THEN args.video.data[p] ELSE args.fill
        /\ ret.has_mask = args.return_pixel_mask
        /\ ret.has_mask =>
              /\ size_of(ret.pixel_mask) = args.padded_size
              /\ DOMAIN ret.pixel_mask.data = DOMAIN ret.video.data
              /\ \A p \in DOMAIN ret.pixel_mask.data :
                    ret.pixel_mask.data[p] = IF Inside(p) THEN 1 ELSE 0

\* A video padded at the bottom only, with a fill value that also occurs in
\* the video, and with the mask requested.
C3_Witness ==
    /\ PadCall
    /\ args.padded_size[1] > args.video.h
    /\ args.padded_size[2] = args.video.w
    /\ args.return_pixel_mask
    /\ ret.raised = "none"
    /\ \E p \in DOMAIN args.video.data : args.video.data[p] = args.fill
    /\ \E p \in DOMAIN ret.pixel_mask.data : ret.pixel_mask.data[p] = 0

\* C4: pad raises the invalid-padding error, returning neither a video nor a
\* mask, exactly when padded_size is smaller than the video in height or in
\* width.
C4_PaddingRejection ==
    PadCall =>
        /\ ret.raised = NegativePadding <=> ~Dominates
        /\ ret.raised = NegativePadding =>
              ("video" \notin DOMAIN ret /\ "pixel_mask" \notin DOMAIN ret)
        /\ ret.raised = "none" => "video" \in DOMAIN ret

\* The error is raised for a padded size that is too low but wide enough.
C4_Witness ==
    /\ PadCall
    /\ args.padded_size[1] < args.video.h
    /\ args.padded_size[2] > args.video.w
    /\ ret.raised = NegativePadding

(* ====================== properties: BatchAssembler ===================== *)
PreprocessCall == pc = "done" /\ op = "preprocess"

\* C1: grouping a batch by shape and reordering with the index map of that
\* grouping, with no transform in between (the first stage of _preprocess
\* with do_convert_rgb and do_resize off), gives a batch of the same length
\* that holds at every position the tensor the input held there.
C1_GroupingRoundTrip ==
    (PreprocessCall /\ ret.raised = "none" /\ ~args.do_resize /\ ~args.do_convert_rgb) =>
        /\ Len(ret.resized_videos) = Len(args.videos)
        /\ \A i \in DOMAIN args.videos : ret.resized_videos[i] = args.videos[i]

\* A batch of three videos, the first and the last of one shape and the
\* second of another, grouped and reordered with no transform in between.
C1_Witness ==
    /\ PreprocessCall /\ ret.raised = "none"
    /\ ~args.do_resize /\ ~args.do_convert_rgb
    /\ Len(args.videos) = 3
    /\ size_of(args.videos[1]) = size_of(args.videos[3])
    /\ size_of(args.videos[1]) /= size_of(args.videos[2])
    /\ Len(ret.resized_videos) = 3

\* C2: with do_pad on a non-empty batch the one pad size is the componentwise
\* maximum of height and of width over the whole post-normalize batch, so pad
\* never raises the negative-padding error, and every output video and every
\* output mask has that size.
C2_GlobalPadSize ==
    (PreprocessCall /\ args.do_pad /\ Len(args.videos) > 0) =>
        /\ ret.raised /= NegativePadding
        /\ ret.raised /= "RuntimeError"
        /\ ret.raised = "none" =>
              LET batch == ret.normalized_videos
                  P     == ret.pad_size
              IN  /\ \A i \in DOMAIN batch : batch[i].h <= P[1] /\ batch[i].w <= P[2]
                  /\ \E i \in DOMAIN batch : batch[i].h = P[1]
                  /\ \E i \in DOMAIN batch : batch[i].w = P[2]
                  /\ Len(batch) = Len(args.videos)
                  /\ Len(ret.pixel_values) = Len(args.videos)
                  /\ Len(ret.pixel_attention_mask) = Len(args.videos)
                  /\ \A i \in DOMAIN ret.pixel_values :
                        /\ size_of(ret.pixel_values[i]) = P
                        /\ size_of(ret.pixel_attention_mask[i]) = P

\* A padded batch of several shapes in which no video has the pad size: the
\* greatest height and the greatest width come from different videos.
C2_Witness ==
    /\ PreprocessCall /\ args.do_pad /\ ret.raised = "none"
    /\ args.do_resize
    /\ Len(ret.normalized_videos) = 3
    /\ \A i \in DOMAIN ret.normalized_videos :
          size_of(ret.normalized_videos[i]) /= ret.pad_size
    /\ \A i \in DOMAIN ret.pixel_values : size_of(ret.pixel_values[i]) = ret.pad_size

====
